---------------------------- MODULE Spec2Model ----------------------------
(***************************************************************************)
(* Model of steppermotors.py: the Portescap20MO20DIU stepper motor class   *)
(* driving four digital lines (one nibble) of a 16-line LabJack U12.       *)
(*                                                                         *)
(* Every call the class makes on the device (check_connection,             *)
(* set_DIO_to_output, write_to_DIO) and every time.sleep is one step of    *)
(* the model, so the intermediate states of a step call are states of the  *)
(* model.  log[m] records the calls made by the operation motor m is       *)
(* running (or ran last), each tagged with the source line that makes it.  *)
(***************************************************************************)
EXTENDS Integers, Sequences, FiniteSets, Bags, TLC

VARIABLES
  power_transistors, \* module global, steppermotors.py:62
  dio,               \* the 16 output lines of the device, as a number
  dio0,              \* the lines as they were before any controller ran
  outputs,           \* the lines configured as outputs, as a mask
  pc,                \* pc[m]: where controller m is in its code
  nibble,            \* self.nibble
  step_time,         \* self.step_time
  settle_time,       \* self.settle_time
  states,            \* self.states
  off,               \* self.off
  i,                 \* iterations of the for loop completed
  call,              \* the running (or last) call: method, steps, entry snapshot
  prev,              \* the call before it
  log,               \* device calls and sleeps of the running (or last) call
  phase,             \* the last pattern of self.states the controller wrote
  net                \* clockwise minus counter-clockwise steps asked for, mod 4

vars == <<power_transistors, dio, dio0, outputs, pc, nibble, step_time,
          settle_time, states, off, i, call, prev, log, phase, net>>

self == <<nibble, step_time, settle_time, states, off>>

---------------------------------------------------------------------------
(* Bounds of the model *)

\* largest argument of step_clockwise / step_counterclockwise
MaxSteps == 8
\* largest nibble argument given to the constructor (3 is the largest valid)
MaxNibble == 4
\* largest steps argument where the progress of a call is followed
MaxRunSteps == 4
\* largest steps argument of two controllers sharing the device
MaxMultiSteps == 1
\* largest steps argument of an n-type and a p-type controller run alike
MaxPairSteps == 4
\* largest steps argument where device writes may fail
MaxFailSteps == 3

(* Program constants *)

\* default of step_time and settle_time (0.1 s), in tenths of a second
DefaultTime == 1
\* number of DIO lines of the LabJack U12
DIOLines == 16

Motors == {1, 2}
Polarities == {"ntype", "ptype"}
Nibbles == 0..MaxNibble
ValidNibbles == 0..3
Times == {0, DefaultTime}
StepCounts == 0..MaxSteps
AllLines == 2^DIOLines - 1
\* the lines as earlier use of the device left them: 0x5a5a has both
\* levels in every nibble
PowerUpLines == {23130}

---------------------------------------------------------------------------
(* Integer arithmetic of the Python expressions *)

RECURSIVE BitAnd(_, _)
BitAnd(a, b) ==
  IF a = 0 \/ b = 0 THEN 0
  ELSE (a % 2) * (b % 2) + 2 * BitAnd(a \div 2, b \div 2)

\* v << (4 * n)
Shl4(v, n) == v * 2^(4 * n)

\* variant: a mask one line too wide
NibbleMaskWide(n) == Shl4(31, n)

\* 0xf << (4 * self.nibble)
NibbleMask(n) == Shl4(15, n)

---------------------------------------------------------------------------
(* The device (labjacku12): lines named by mask take the bits of value,   *)
(* the other lines keep theirs.                                           *)

\* bit k of x
Bit(x, k) == (x \div 2^k) % 2

\* lines k and above
RECURSIVE MaskedFrom(_, _, _, _)
MaskedFrom(old, value, mask, k) ==
  IF k = DIOLines THEN 0
  ELSE (IF Bit(mask, k) = 1 THEN Bit(value, k) ELSE Bit(old, k)) * 2^k
         + MaskedFrom(old, value, mask, k + 1)

Masked(old, value, mask) == MaskedFrom(old, value, mask, 0)

Event(name, arguments, lineno) ==
  [fn |-> name, args |-> arguments, line |-> lineno]

NoEvent == Event("none", <<>>, 0)
NoCall == [op |-> "none", steps |-> 0, start |-> <<>>, cfg |-> <<>>]
NoPrev == [op |-> "none", steps |-> 0, start |-> <<>>, last |-> NoEvent]

Last(s) == IF s = <<>> THEN NoEvent ELSE s[Len(s)]

\* the source lines that write self.states[0]
PhaseLines == {99, 105, 118, 124}
\* phase[m] before the controller has written a pattern of self.states
NoPhase == -1

\* labjacku12.write_to_DIO(value, mask), called from source line lineno
\* and recorded after the calls in before
write_to_DIO(m, before, value, mask, lineno) ==
  /\ dio' = Masked(dio, value, mask)
  /\ log' = [log EXCEPT ![m] = Append(before, Event("write_to_DIO", <<value, mask>>, lineno))]
  /\ phase' = [phase EXCEPT ![m] = IF lineno \in PhaseLines THEN value ELSE @]
  /\ UNCHANGED outputs

\* time.sleep(d), called from source line lineno
sleep(m, d, lineno) ==
  /\ log' = [log EXCEPT ![m] = Append(@, Event("sleep", <<d>>, lineno))]
  /\ UNCHANGED <<dio, outputs, phase>>

\* entry of a method: the call record, and the one before it
Enter(m, method, n) ==
  /\ call' = [call EXCEPT ![m] =
                [op |-> method, steps |-> n, start |-> states[m],
                 cfg |-> <<nibble[m], off[m], step_time[m], settle_time[m]>>]]
  /\ prev' = [prev EXCEPT ![m] =
                [op |-> call[m].op, steps |-> call[m].steps,
                 start |-> call[m].start, last |-> Last(log[m])]]
  /\ net' = [net EXCEPT ![m] =
               CASE method = "step_clockwise" -> (@ + n) % 4
                 [] method = "step_counterclockwise" -> (@ + 4 * n - n) % 4
                 [] OTHER -> @]

---------------------------------------------------------------------------
(* __init__ *)

\* variant: the n-type states for both polarities
StatesOfAlike(p) == <<6, 10, 9, 5>>
\* the states list and the off value of a polarity, lines 88-93
StatesOf(p) == IF p = "ptype" THEN <<9, 5, 6, 10>> ELSE <<6, 10, 9, 5>>

\* variant: the off values of the two polarities exchanged
OffOfSwapped(p) == IF p = "ptype" THEN 0 ELSE 15
OffOf(p) == IF p = "ptype" THEN 15 ELSE 0

\* variant: the result of the probe is ignored
init_check_ignored(m) ==
  /\ pc[m] = "new"
  /\ \E n \in Nibbles, st \in Times, se \in Times, connected \in {0, 1} :
       /\ nibble' = [nibble EXCEPT ![m] = n]
       /\ step_time' = [step_time EXCEPT ![m] = st]
       /\ settle_time' = [settle_time EXCEPT ![m] = se]
       /\ call' = [call EXCEPT ![m] =
                     [op |-> "__init__", steps |-> 0, start |-> <<>>, cfg |-> <<>>]]
       /\ log' = [log EXCEPT ![m] = <<Event("check_connection", <<connected>>, 82)>>]
       /\ pc' = [pc EXCEPT ![m] = "init_configure"]
  /\ UNCHANGED <<power_transistors, dio, dio0, outputs, states, off, i, prev,
                 phase, net>>

\* lines 79-84: store the arguments, probe the device, raise if it is absent
init_check(m) ==
  /\ pc[m] = "new"
  /\ \E n \in Nibbles, st \in Times, se \in Times, connected \in {0, 1} :
       /\ nibble' = [nibble EXCEPT ![m] = n]
       /\ step_time' = [step_time EXCEPT ![m] = st]
       /\ settle_time' = [settle_time EXCEPT ![m] = se]
       /\ call' = [call EXCEPT ![m] =
                     [op |-> "__init__", steps |-> 0, start |-> <<>>, cfg |-> <<>>]]
       /\ log' = [log EXCEPT ![m] = <<Event("check_connection", <<connected>>, 82)>>]
       /\ pc' = [pc EXCEPT ![m] =
                   IF connected = 0 THEN "raised" ELSE "init_configure"]
  /\ UNCHANGED <<power_transistors, dio, dio0, outputs, states, off, i, prev,
                 phase, net>>

\* lines 85-93: configure the nibble's lines as outputs, driven high, then
\* choose the states and the off value by polarity
init_configure(m) ==
  /\ pc[m] = "init_configure"
  /\ LET Outputs == NibbleMask(nibble[m])
         InitialValue == NibbleMask(nibble[m])
     IN  /\ outputs' = Masked(outputs, AllLines, Outputs)
         /\ dio' = Masked(dio, InitialValue, Outputs)
         /\ log' = [log EXCEPT ![m] =
                      Append(@, Event("set_DIO_to_output", <<Outputs, InitialValue>>, 87))]
  /\ states' = [states EXCEPT ![m] = StatesOf(power_transistors)]
  /\ off' = [off EXCEPT ![m] = OffOf(power_transistors)]
  /\ pc' = [pc EXCEPT ![m] = "idle"]
  /\ UNCHANGED <<power_transistors, dio0, nibble, step_time, settle_time, i,
                 call, prev, phase, net>>

---------------------------------------------------------------------------
(* step_clockwise *)

\* variant: the new head is appended instead of the popped one
RotateLeftLosing(s) == <<s[2], s[3], s[4], s[2]>>
\* variant: the popped head is inserted before the last element
RotateLeftShort(s) == <<s[2], s[3], s[1], s[4]>>

\* self.states.append(self.states.pop(0)), line 103
RotateLeft(s) == Append(Tail(s), Head(s))

\* lines 97-100: make sure the motor is energized in its current state
step_clockwise(m) ==
  /\ pc[m] = "idle"
  /\ \E steps \in StepCounts : Enter(m, "step_clockwise", steps)
  /\ write_to_DIO(m, <<>>, Shl4(states[m][1], nibble[m]), NibbleMask(nibble[m]), 99)
  /\ i' = [i EXCEPT ![m] = 0]
  /\ pc' = [pc EXCEPT ![m] = "cw_for"]
  /\ UNCHANGED <<power_transistors, dio0, self>>

\* variant: range(steps + 1)
cw_rotate_inclusive(m) ==
  /\ pc[m] = "cw_for"
  /\ i[m] <= call[m].steps
  /\ states' = [states EXCEPT ![m] = RotateLeft(@)]
  /\ pc' = [pc EXCEPT ![m] = "cw_energize"]
  /\ UNCHANGED <<power_transistors, dio, dio0, outputs, nibble, step_time,
                 settle_time, off, i, call, prev, log, phase, net>>

\* lines 101-103: another iteration; rotate the states
cw_rotate(m) ==
  /\ pc[m] = "cw_for"
  /\ i[m] < call[m].steps
  /\ states' = [states EXCEPT ![m] = RotateLeft(@)]
  /\ pc' = [pc EXCEPT ![m] = "cw_energize"]
  /\ UNCHANGED <<power_transistors, dio, dio0, outputs, nibble, step_time,
                 settle_time, off, i, call, prev, log, phase, net>>

\* lines 105-106: energize the next state
cw_energize(m) ==
  /\ pc[m] = "cw_energize"
  /\ write_to_DIO(m, log[m], Shl4(states[m][1], nibble[m]), NibbleMask(nibble[m]), 105)
  /\ pc' = [pc EXCEPT ![m] = "cw_sleep"]
  /\ UNCHANGED <<power_transistors, dio0, self, i, call, prev, net>>

\* line 107
cw_sleep(m) ==
  /\ pc[m] = "cw_sleep"
  /\ sleep(m, step_time[m], 107)
  /\ i' = [i EXCEPT ![m] = @ + 1]
  /\ pc' = [pc EXCEPT ![m] = "cw_for"]
  /\ UNCHANGED <<power_transistors, dio0, self, call, prev, net>>

\* variant: no settle sleep
cw_settle_skipped(m) ==
  /\ pc[m] = "cw_for"
  /\ ~(i[m] < call[m].steps)
  /\ pc' = [pc EXCEPT ![m] = "cw_off"]
  /\ UNCHANGED <<power_transistors, dio, dio0, outputs, self, i, call, prev,
                 log, phase, net>>

\* line 109: the loop is over; wait for the motor to stop moving
cw_settle(m) ==
  /\ pc[m] = "cw_for"
  /\ ~(i[m] < call[m].steps)
  /\ sleep(m, settle_time[m], 109)
  /\ pc' = [pc EXCEPT ![m] = "cw_off"]
  /\ UNCHANGED <<power_transistors, dio0, self, i, call, prev, net>>

\* variant: the method returns without the last write
cw_off_skipped(m) ==
  /\ pc[m] = "cw_off"
  /\ pc' = [pc EXCEPT ![m] = "idle"]
  /\ UNCHANGED <<power_transistors, dio, dio0, outputs, self, i, call, prev,
                 log, phase, net>>

\* lines 111-112: turn all 4 outputs off so no current flows
cw_off(m) ==
  /\ pc[m] = "cw_off"
  /\ write_to_DIO(m, log[m], Shl4(off[m], nibble[m]), NibbleMask(nibble[m]), 111)
  /\ pc' = [pc EXCEPT ![m] = "idle"]
  /\ UNCHANGED <<power_transistors, dio0, self, i, call, prev, net>>

---------------------------------------------------------------------------
(* step_counterclockwise *)

\* variant: pop(0) instead of pop()
RotateRightStill(s) == s

\* self.states.insert(0, self.states.pop()), line 122
RotateRight(s) == <<s[Len(s)]>> \o SubSeq(s, 1, Len(s) - 1)

\* lines 116-119
step_counterclockwise(m) ==
  /\ pc[m] = "idle"
  /\ \E steps \in StepCounts : Enter(m, "step_counterclockwise", steps)
  /\ write_to_DIO(m, <<>>, Shl4(states[m][1], nibble[m]), NibbleMask(nibble[m]), 118)
  /\ i' = [i EXCEPT ![m] = 0]
  /\ pc' = [pc EXCEPT ![m] = "ccw_for"]
  /\ UNCHANGED <<power_transistors, dio0, self>>

\* lines 120-122
ccw_rotate(m) ==
  /\ pc[m] = "ccw_for"
  /\ i[m] < call[m].steps
  /\ states' = [states EXCEPT ![m] = RotateRight(@)]
  /\ pc' = [pc EXCEPT ![m] = "ccw_energize"]
  /\ UNCHANGED <<power_transistors, dio, dio0, outputs, nibble, step_time,
                 settle_time, off, i, call, prev, log, phase, net>>

\* lines 124-125
ccw_energize(m) ==
  /\ pc[m] = "ccw_energize"
  /\ write_to_DIO(m, log[m], Shl4(states[m][1], nibble[m]), NibbleMask(nibble[m]), 124)
  /\ pc' = [pc EXCEPT ![m] = "ccw_sleep"]
  /\ UNCHANGED <<power_transistors, dio0, self, i, call, prev, net>>

\* line 126
ccw_sleep(m) ==
  /\ pc[m] = "ccw_sleep"
  /\ sleep(m, step_time[m], 126)
  /\ i' = [i EXCEPT ![m] = @ + 1]
  /\ pc' = [pc EXCEPT ![m] = "ccw_for"]
  /\ UNCHANGED <<power_transistors, dio0, self, call, prev, net>>

\* line 128
ccw_settle(m) ==
  /\ pc[m] = "ccw_for"
  /\ ~(i[m] < call[m].steps)
  /\ sleep(m, settle_time[m], 128)
  /\ pc' = [pc EXCEPT ![m] = "ccw_off"]
  /\ UNCHANGED <<power_transistors, dio0, self, i, call, prev, net>>

\* lines 130-131
ccw_off(m) ==
  /\ pc[m] = "ccw_off"
  /\ write_to_DIO(m, log[m], Shl4(off[m], nibble[m]), NibbleMask(nibble[m]), 130)
  /\ pc' = [pc EXCEPT ![m] = "idle"]
  /\ UNCHANGED <<power_transistors, dio0, self, i, call, prev, net>>

---------------------------------------------------------------------------
(* turn_power_off, lines 134-136 *)

\* variant: the states are rotated as well
turn_power_off_rotating(m) ==
  /\ pc[m] = "idle"
  /\ Enter(m, "turn_power_off", 0)
  /\ write_to_DIO(m, <<>>, Shl4(off[m], nibble[m]), NibbleMask(nibble[m]), 135)
  /\ states' = [states EXCEPT ![m] = RotateLeft(@)]
  /\ UNCHANGED <<power_transistors, dio0, nibble, step_time,
                 settle_time, off, i, pc>>

turn_power_off(m) ==
  /\ pc[m] = "idle"
  /\ Enter(m, "turn_power_off", 0)
  /\ write_to_DIO(m, <<>>, Shl4(off[m], nibble[m]), NibbleMask(nibble[m]), 135)
  /\ UNCHANGED <<power_transistors, dio0, self, i, pc>>

---------------------------------------------------------------------------
(* One controller on the device *)

Init ==
  /\ power_transistors \in Polarities
  /\ dio \in PowerUpLines
  /\ dio0 = dio
  /\ outputs = 0
  /\ pc = [m \in Motors |-> "new"]
  /\ nibble = [m \in Motors |-> 0]
  /\ step_time = [m \in Motors |-> 0]
  /\ settle_time = [m \in Motors |-> 0]
  /\ states = [m \in Motors |-> <<>>]
  /\ off = [m \in Motors |-> 0]
  /\ i = [m \in Motors |-> 0]
  /\ call = [m \in Motors |-> NoCall]
  /\ prev = [m \in Motors |-> NoPrev]
  /\ log = [m \in Motors |-> <<>>]
  /\ phase = [m \in Motors |-> NoPhase]
  /\ net = [m \in Motors |-> 0]

Controller(m) ==
  \/ init_check(m)
  \/ init_configure(m)
  \/ step_clockwise(m)
  \/ cw_rotate(m)
  \/ cw_energize(m)
  \/ cw_sleep(m)
  \/ cw_settle(m)
  \/ cw_off(m)
  \/ step_counterclockwise(m)
  \/ ccw_rotate(m)
  \/ ccw_energize(m)
  \/ ccw_sleep(m)
  \/ ccw_settle(m)
  \/ ccw_off(m)
  \/ turn_power_off(m)

Next == Controller(1)

Spec == Init /\ [][Next]_vars

---------------------------------------------------------------------------
(* One controller whose calls, once made, run on: the methods are plain    *)
(* sequential code, so when every write and sleep returns the next         *)
(* statement of a running step call is executed.                           *)

\* the statements of a running step_clockwise or step_counterclockwise
Running(m) ==
  \/ cw_rotate(m)
  \/ cw_energize(m)
  \/ cw_sleep(m)
  \/ cw_settle(m)
  \/ cw_off(m)
  \/ ccw_rotate(m)
  \/ ccw_energize(m)
  \/ ccw_sleep(m)
  \/ ccw_settle(m)
  \/ ccw_off(m)

\* the arguments controller m was constructed and last called with are
\* among these
Drawn(m, maxsteps, nibbles, times) ==
  pc'[m] # "new" =>
    /\ call'[m].steps <= maxsteps
    /\ nibble'[m] \in nibbles
    /\ step_time'[m] \in times
    /\ settle_time'[m] \in times

RunDrawn == Drawn(1, MaxRunSteps, {0, 3}, {DefaultTime})

NextRun ==
  \/ init_check(1) /\ RunDrawn
  \/ init_configure(1)
  \/ step_clockwise(1) /\ RunDrawn
  \/ step_counterclockwise(1) /\ RunDrawn
  \/ turn_power_off(1)
  \/ Running(1)

SpecRun == Init /\ [][NextRun]_vars /\ WF_vars(Running(1))

---------------------------------------------------------------------------
(* Two controllers on different nibbles of one device.  Every device call *)
(* and every sleep of one controller may be followed by a statement of    *)
(* the other.                                                             *)

\* the nibbles the two controllers are constructed on: adjacent or apart
MultiNibbles(m) == IF m = 1 THEN {0, 3} ELSE {1}

\* the device answers the probe, and the two nibbles differ
MultiDrawn(m) ==
  /\ Drawn(m, MaxMultiSteps, MultiNibbles(m), {DefaultTime})
  /\ pc'[m] # "raised"
  /\ (pc'[1] # "new" /\ pc'[2] # "new") => nibble'[1] # nibble'[2]

\* controller 1 is stepped clockwise and turned off, controller 2 is
\* stepped counterclockwise
NextMulti ==
  \/ \E m \in Motors : init_check(m) /\ MultiDrawn(m)
  \/ \E m \in Motors : init_configure(m)
  \/ step_clockwise(1) /\ MultiDrawn(1)
  \/ cw_rotate(1)
  \/ cw_energize(1)
  \/ cw_sleep(1)
  \/ cw_settle(1)
  \/ cw_off(1)
  \/ turn_power_off(1)
  \/ step_counterclockwise(2) /\ MultiDrawn(2)
  \/ ccw_rotate(2)
  \/ ccw_energize(2)
  \/ ccw_sleep(2)
  \/ ccw_settle(2)
  \/ ccw_off(2)

SpecMulti == Init /\ [][NextMulti]_vars

---------------------------------------------------------------------------
(* An n-type controller and a p-type controller on the same nibble, taken *)
(* through the same calls: controller 1 is constructed while the module   *)
(* global is "ntype", controller 2 after it has been set to "ptype", and  *)
(* controller 2 repeats every statement of controller 1.                  *)

\* line 62 is a module global: the program assigns it between the two
\* constructions
set_power_transistors ==
  /\ power_transistors = "ntype"
  /\ pc[1] = "idle" /\ pc[2] = "init_configure"
  /\ power_transistors' = "ptype"
  /\ UNCHANGED <<dio, dio0, outputs, pc, nibble, step_time, settle_time,
                 states, off, i, call, prev, log, phase, net>>

\* the two controllers were given the same arguments and calls and are at
\* the same statement
InSync ==
  /\ pc[1] = pc[2] /\ i[1] = i[2]
  /\ nibble[1] = nibble[2]
  /\ step_time[1] = step_time[2] /\ settle_time[1] = settle_time[2]
  /\ call[1].op = call[2].op /\ call[1].steps = call[2].steps
  /\ prev[1].op = prev[2].op /\ prev[1].steps = prev[2].steps
  /\ Len(log[1]) = Len(log[2])

PairDrawn == Drawn(1, MaxPairSteps, {0, 2}, {DefaultTime})

InitPair == Init /\ power_transistors = "ntype"

NextPair ==
  \/ InSync /\ init_check(1) /\ PairDrawn
  \/ InSync /\ init_configure(1)
  \/ InSync /\ step_clockwise(1) /\ PairDrawn
  \/ InSync /\ step_counterclockwise(1) /\ PairDrawn
  \/ InSync /\ turn_power_off(1)
  \/ InSync /\ Running(1)
  \/ set_power_transistors
  \/ ~InSync /\ init_check(2) /\ InSync'
  \/ ~InSync /\ power_transistors = "ptype" /\ init_configure(2) /\ InSync'
  \/ ~InSync /\ step_clockwise(2) /\ InSync'
  \/ ~InSync /\ step_counterclockwise(2) /\ InSync'
  \/ ~InSync /\ turn_power_off(2) /\ InSync'
  \/ ~InSync /\ Running(2) /\ InSync'

SpecPair == InitPair /\ [][NextPair]_vars

---------------------------------------------------------------------------
(* One controller on a device whose writes may fail.  No method has a     *)
(* try statement, so an exception raised by write_to_DIO leaves the       *)
(* method at once and reaches its caller.                                 *)

\* what labjacku12.write_to_DIO may raise
DeviceErrors == {"IOError", "LabJackError"}

\* variant: try/finally, the outputs are turned off before the exception
\* leaves the method
RaisedThenOff(m, before, value, mask, lineno) ==
  /\ \E err \in DeviceErrors :
       log' = [log EXCEPT ![m] =
                 before \o <<Event("write_to_DIO", <<value, mask>>, lineno),
                             Event("device_error", <<err>>, lineno),
                             Event("write_to_DIO",
                                   <<Shl4(off[m], nibble[m]), NibbleMask(nibble[m])>>,
                                   lineno),
                             Event("raise", <<err>>, lineno)>>]
  /\ dio' = Masked(dio, Shl4(off[m], nibble[m]), NibbleMask(nibble[m]))
  /\ pc' = [pc EXCEPT ![m] = "idle"]
  /\ UNCHANGED <<outputs, phase>>

\* the write_to_DIO call of source line lineno raises: the lines may or
\* may not have taken the value, and the exception leaves the method
Raised(m, before, value, mask, lineno) ==
  /\ \E err \in DeviceErrors :
       log' = [log EXCEPT ![m] =
                 before \o <<Event("write_to_DIO", <<value, mask>>, lineno),
                             Event("device_error", <<err>>, lineno),
                             Event("raise", <<err>>, lineno)>>]
  /\ dio' \in {dio, Masked(dio, value, mask)}
  /\ pc' = [pc EXCEPT ![m] = "idle"]
  /\ UNCHANGED <<outputs, phase>>

\* lines 99-100 raise
step_clockwise_raises(m) ==
  /\ pc[m] = "idle"
  /\ \E steps \in StepCounts : Enter(m, "step_clockwise", steps)
  /\ Raised(m, <<>>, Shl4(states[m][1], nibble[m]), NibbleMask(nibble[m]), 99)
  /\ UNCHANGED <<power_transistors, dio0, self, i>>

\* lines 105-106 raise
cw_energize_raises(m) ==
  /\ pc[m] = "cw_energize"
  /\ Raised(m, log[m], Shl4(states[m][1], nibble[m]), NibbleMask(nibble[m]), 105)
  /\ UNCHANGED <<power_transistors, dio0, self, i, call, prev, net>>

\* lines 111-112 raise
cw_off_raises(m) ==
  /\ pc[m] = "cw_off"
  /\ Raised(m, log[m], Shl4(off[m], nibble[m]), NibbleMask(nibble[m]), 111)
  /\ UNCHANGED <<power_transistors, dio0, self, i, call, prev, net>>

\* lines 118-119 raise
step_counterclockwise_raises(m) ==
  /\ pc[m] = "idle"
  /\ \E steps \in StepCounts : Enter(m, "step_counterclockwise", steps)
  /\ Raised(m, <<>>, Shl4(states[m][1], nibble[m]), NibbleMask(nibble[m]), 118)
  /\ UNCHANGED <<power_transistors, dio0, self, i>>

\* lines 124-125 raise
ccw_energize_raises(m) ==
  /\ pc[m] = "ccw_energize"
  /\ Raised(m, log[m], Shl4(states[m][1], nibble[m]), NibbleMask(nibble[m]), 124)
  /\ UNCHANGED <<power_transistors, dio0, self, i, call, prev, net>>

\* lines 130-131 raise
ccw_off_raises(m) ==
  /\ pc[m] = "ccw_off"
  /\ Raised(m, log[m], Shl4(off[m], nibble[m]), NibbleMask(nibble[m]), 130)
  /\ UNCHANGED <<power_transistors, dio0, self, i, call, prev, net>>

\* lines 135-136 raise
turn_power_off_raises(m) ==
  /\ pc[m] = "idle"
  /\ Enter(m, "turn_power_off", 0)
  /\ Raised(m, <<>>, Shl4(off[m], nibble[m]), NibbleMask(nibble[m]), 135)
  /\ UNCHANGED <<power_transistors, dio0, self, i>>

\* the caller lets the exception end the program: no method is called on a
\* controller whose last call raised
FailDrawn ==
  /\ Drawn(1, MaxFailSteps, {1}, {DefaultTime})
  /\ Last(log[1]).fn # "raise"

NextFail ==
  \/ init_check(1) /\ FailDrawn
  \/ init_configure(1)
  \/ step_clockwise(1) /\ FailDrawn
  \/ step_counterclockwise(1) /\ FailDrawn
  \/ turn_power_off(1) /\ FailDrawn
  \/ Running(1)
  \/ step_clockwise_raises(1) /\ FailDrawn
  \/ cw_energize_raises(1)
  \/ cw_off_raises(1)
  \/ step_counterclockwise_raises(1) /\ FailDrawn
  \/ ccw_energize_raises(1)
  \/ ccw_off_raises(1)
  \/ turn_power_off_raises(1) /\ FailDrawn

SpecFail == Init /\ [][NextFail]_vars

---------------------------------------------------------------------------
(* Vocabulary of the properties *)

StepMethods == {"step_clockwise", "step_counterclockwise"}
IsStep(c) == c.op \in StepMethods
Constructed(m) == pc[m] \notin {"new", "init_configure", "raised"}
Idle(m) == pc[m] = "idle"
InStep(m) == Constructed(m) /\ ~Idle(m)

IsWrite(e) == e.fn = "write_to_DIO"
IsSleep(e) == e.fn = "sleep"
Writes(l) == SelectSeq(l, IsWrite)
Sleeps(l) == SelectSeq(l, IsSleep)
CountAt(l, lines) == Cardinality({k \in DOMAIN l : l[k].line \in lines})

Range(s) == {s[k] : k \in DOMAIN s}
BagOfSeq(s) == [x \in Range(s) |-> Cardinality({k \in DOMAIN s : s[k] = x})]

\* the 4 lines [4n, 4n+3] as a mask, and a pattern placed on them
LinesOf(n) == 15 * 16^n
OnLines(v, n) == v * 16^n
OffWrite(m) == <<OnLines(off[m], nibble[m]), LinesOf(nibble[m])>>

---------------------------------------------------------------------------
\* C1: a completed step_clockwise(steps) or step_counterclockwise(steps)
\* has issued exactly steps + 2 device writes: one re-assert write, steps
\* phase writes and one de-energize write; a call still running has issued
\* at most steps + 1.
C1_WriteCount ==
  \A m \in Motors :
    IsStep(call[m]) =>
      /\ Idle(m) =>
           /\ Len(Writes(log[m])) = call[m].steps + 2
           /\ CountAt(log[m], {99, 118}) = 1
           /\ CountAt(log[m], {105, 124}) = call[m].steps
           /\ CountAt(log[m], {111, 130}) = 1
      /\ ~Idle(m) => Len(Writes(log[m])) <= call[m].steps + 1

C1_Witness ==
  /\ Idle(1) /\ call[1].op = "step_counterclockwise" /\ call[1].steps = 3
  /\ Len(Writes(log[1])) = 5
  /\ prev[1].op = "step_clockwise" /\ prev[1].steps = 7

\* C2: ring invariant: in every state after construction, the states
\* between the steps of a step call included, self.states has length 4 and
\* holds the multiset of 4 distinct patterns it was constructed with.
C2_RingInvariant ==
  \A m \in Motors :
    Constructed(m) =>
      /\ Len(states[m]) = 4
      /\ Cardinality(Range(states[m])) = 4
      /\ BagOfSeq(states[m]) = BagOfSeq(StatesOf(power_transistors))

C2_Witness ==
  /\ pc[1] = "ccw_energize" /\ i[1] = 2
  /\ prev[1].op = "turn_power_off"
  /\ states[1] # StatesOf(power_transistors)
  /\ BagOfSeq(states[1]) = BagOfSeq(StatesOf(power_transistors))

\* C3: inverse property: a completed step call of k steps that directly
\* follows a step call of k steps in the other direction leaves self.states
\* in the order (and with the head) the first call started from, and the
\* last write of each of the two calls is the de-energized pattern.
C3_Inverse ==
  \A m \in Motors :
    ( /\ Idle(m) /\ IsStep(call[m]) /\ IsStep(prev[m])
      /\ call[m].op # prev[m].op
      /\ call[m].steps = prev[m].steps )
    => /\ states[m] = prev[m].start
       /\ states[m][1] = prev[m].start[1]
       /\ IsWrite(Last(log[m])) /\ Last(log[m]).args = OffWrite(m)
       /\ IsWrite(prev[m].last) /\ prev[m].last.args = OffWrite(m)

C3_Witness ==
  /\ Idle(1) /\ call[1].op = "step_clockwise" /\ call[1].steps = 3
  /\ prev[1].op = "step_counterclockwise" /\ prev[1].steps = 3
  /\ states[1] = prev[1].start
  /\ call[1].start # states[1]

\* every write recorded for a controller on a valid nibble n has mask
\* 0xf << 4n and a value inside the mask
C4_LogMasked ==
  \A m \in Motors :
    (Constructed(m) /\ nibble[m] \in ValidNibbles) =>
      \A k \in DOMAIN log[m] :
        IsWrite(log[m][k]) =>
          /\ log[m][k].args[2] = LinesOf(nibble[m])
          /\ BitAnd(log[m][k].args[1], LinesOf(nibble[m])) = log[m][k].args[1]

\* a step in which such a controller writes keeps the lines outside its nibble
C4_OtherLinesKept ==
  \A m \in Motors :
    ( /\ Constructed(m) /\ nibble[m] \in ValidNibbles
      /\ log'[m] # log[m] /\ IsWrite(Last(log'[m])) )
    => BitAnd(dio', AllLines - LinesOf(nibble[m]))
         = BitAnd(dio, AllLines - LinesOf(nibble[m]))

\* C4: masking isolation: every write of a controller on nibble n in 0..3
\* has mask 0xf << 4n and a value inside the mask, and no step of the
\* controller that writes to the device changes a line outside [4n, 4n+3].
C4_MaskingIsolation == [](C4_LogMasked) /\ [][C4_OtherLinesKept]_vars

C4_Witness ==
  /\ Idle(1) /\ nibble[1] = 2 /\ call[1].op = "turn_power_off"
  /\ IsStep(prev[1]) /\ prev[1].steps = 2
  /\ power_transistors = "ptype"
  /\ dio0 = 23130 /\ dio = 24410

\* C5: after a successful construction the value the constructor has
\* driven onto the controller's 4 lines is the de-energized pattern,
\* self.off << (4 * nibble), for both polarities.
C5_ConstructedDeEnergized ==
  \A m \in Motors :
    (Idle(m) /\ call[m].op = "__init__" /\ nibble[m] \in ValidNibbles) =>
      /\ Last(log[m]).fn = "set_DIO_to_output"
      /\ Last(log[m]).args[2] = OnLines(off[m], nibble[m])
      /\ BitAnd(dio, LinesOf(nibble[m])) = OnLines(off[m], nibble[m])

\* C6: when check_connection reports the device unreachable, construction
\* raises having made no set_DIO_to_output call and no write (the lines and
\* their directions are untouched); every construction probes the device
\* exactly once, as its first device call, and configures the pins only
\* after a probe that found the device.
C6_UnreachableRaises ==
  \A m \in Motors :
    /\ call[m].op = "__init__" =>
         /\ log[m][1].fn = "check_connection"
         /\ CountAt(log[m], {82}) = 1
         /\ \A k \in DOMAIN log[m] :
              /\ log[m][k].fn = "check_connection" => k = 1
              /\ log[m][k].fn = "set_DIO_to_output" =>
                   (k = 2 /\ log[m][1].args[1] # 0)
              /\ ~IsWrite(log[m][k])
         /\ (log[m][1].args[1] = 0) <=> (pc[m] = "raised")
    /\ pc[m] = "raised" =>
         /\ log[m] = <<Event("check_connection", <<0>>, 82)>>
         /\ dio = dio0
         /\ outputs = 0
    /\ call[m].op # "__init__" =>
         \A k \in DOMAIN log[m] : log[m][k].fn # "check_connection"

C6_Witness ==
  /\ pc[1] = "raised"
  /\ log[1][1].fn = "check_connection" /\ log[1][1].args[1] = 0
  /\ nibble[1] = 3

\* the fields of a fresh controller, and off at any time, by polarity
C7_Fresh ==
  \A m \in Motors :
    /\ (Idle(m) /\ call[m].op = "__init__") =>
         /\ power_transistors = "ntype" =>
              (states[m] = <<6, 10, 9, 5>> /\ off[m] = 0)
         /\ power_transistors = "ptype" =>
              (states[m] = <<9, 5, 6, 10>> /\ off[m] = 15)
    /\ Constructed(m) =>
         off[m] = IF power_transistors = "ntype" THEN 0 ELSE 15

\* no step changes the off of a constructed controller
C7_OffKept == \A m \in Motors : Constructed(m) => off'[m] = off[m]

\* C7: polarity selection: construction with n-type transistors yields
\* states [0x6,0xa,0x9,0x5] and off 0x0, with p-type transistors states
\* [0x9,0x5,0x6,0xa] and off 0xf; off never changes afterwards.
C7_PolaritySelection == [](C7_Fresh) /\ [][C7_OffKept]_vars

C7_Witness ==
  /\ power_transistors = "ptype"
  /\ Idle(1) /\ call[1].op = "step_clockwise" /\ call[1].steps = 2
  /\ off[1] = 15
  /\ states[1] = <<6, 10, 9, 5>>

\* C8: full cycle: a completed step_clockwise or step_counterclockwise
\* call whose step count is a multiple of 4 leaves self.states in its
\* pre-call order, and the last write of the call has value
\* off << (4 * nibble) and mask 0xf << (4 * nibble).
C8_FullCycle ==
  \A m \in Motors :
    (Idle(m) /\ IsStep(call[m]) /\ call[m].steps % 4 = 0) =>
      /\ states[m] = call[m].start
      /\ IsWrite(Last(log[m]))
      /\ Last(log[m]).args = OffWrite(m)

C8_Witness ==
  /\ power_transistors = "ntype" /\ nibble[1] = 1
  /\ step_time[1] = 0 /\ settle_time[1] = 0
  /\ Idle(1) /\ call[1].op = "step_clockwise" /\ call[1].steps = 4
  /\ prev[1].op = "__init__"
  /\ states[1] = <<6, 10, 9, 5>>
  /\ Last(log[1]).args = <<0, 240>>

\* C9: turn_power_off issues exactly one device write, of off << (4 *
\* nibble) under mask 0xf << (4 * nibble), sleeps never, and leaves
\* self.states, self.off, self.nibble and both times as they were; the
\* step call that follows it re-asserts the head pattern that was
\* current when turn_power_off was called.
C9_PowerOff ==
  \A m \in Motors :
    /\ call[m].op = "turn_power_off" =>
         /\ Idle(m)
         /\ Len(log[m]) = 1
         /\ IsWrite(log[m][1])
         /\ log[m][1].args = OffWrite(m)
         /\ Sleeps(log[m]) = <<>>
         /\ states[m] = call[m].start
         /\ <<nibble[m], off[m], step_time[m], settle_time[m]>> = call[m].cfg
    /\ (IsStep(call[m]) /\ prev[m].op = "turn_power_off") =>
         /\ IsWrite(log[m][1])
         /\ log[m][1].args[1] = OnLines(prev[m].start[1], nibble[m])
         /\ call[m].start = prev[m].start

C9_Witness ==
  /\ call[1].op = "turn_power_off"
  /\ prev[1].op = "step_clockwise" /\ prev[1].steps = 1
  /\ states[1] # StatesOf(power_transistors)
  /\ nibble[1] = 2 /\ power_transistors = "ptype"
  /\ log[1] = <<Event("write_to_DIO", <<15 * 256, 15 * 256>>, 135)>>

\* C10: zero steps: a completed step_clockwise(0) or
\* step_counterclockwise(0) has issued exactly two writes, the head pattern
\* and then off, with one settle sleep between them and no step sleep, and
\* has left self.states in its order.
C10_ZeroSteps ==
  \A m \in Motors :
    (Idle(m) /\ IsStep(call[m]) /\ call[m].steps = 0) =>
      /\ Len(log[m]) = 3
      /\ IsWrite(log[m][1])
      /\ log[m][1].args = <<OnLines(call[m].start[1], nibble[m]), LinesOf(nibble[m])>>
      /\ IsSleep(log[m][2])
      /\ log[m][2].line \in {109, 128}
      /\ log[m][2].args = <<settle_time[m]>>
      /\ IsWrite(log[m][3])
      /\ log[m][3].args = OffWrite(m)
      /\ CountAt(log[m], {107, 126}) = 0
      /\ states[m] = call[m].start

C10_Witness ==
  /\ Idle(1) /\ call[1].op = "step_counterclockwise" /\ call[1].steps = 0
  /\ prev[1].op = "step_clockwise" /\ prev[1].steps = 1
  /\ Len(log[1]) = 3
  /\ step_time[1] = 0 /\ settle_time[1] = DefaultTime

---------------------------------------------------------------------------
\* s rotated left by k positions (right by -k), by index arithmetic
Turned(s, k) == [j \in 1..Len(s) |-> s[((j - 1 + 4 * Len(s) + k) % Len(s)) + 1]]
\* +1 for step_clockwise, -1 for step_counterclockwise
Sense(c) == IF c.op = "step_clockwise" THEN 1 ELSE -1

\* C13: write sequence of a step call started with self.states =
\* [c0,c1,c2,c3]: the first write is c0, the i-th phase write is c_(i mod 4)
\* (step_clockwise) or c_((-i) mod 4) (step_counterclockwise), each made
\* after the rotation of its iteration, and off is written exactly once,
\* as the last write of the call.
C13_WriteSequence ==
  \A m \in Motors :
    IsStep(call[m]) =>
      LET w == Writes(log[m])
          c == call[m].start
          n == call[m].steps
      IN  /\ Len(w) >= 1 /\ Len(w) <= n + 2
          /\ Idle(m) <=> Len(w) = n + 2
          /\ \A k \in DOMAIN w :
               /\ w[k].args[2] = LinesOf(nibble[m])
               /\ k = 1 => /\ w[k].line \in {99, 118}
                           /\ w[k].args[1] = OnLines(c[1], nibble[m])
               /\ (1 < k /\ k <= n + 1) =>
                    /\ w[k].line \in {105, 124}
                    /\ w[k].args[1] =
                         OnLines(Turned(c, Sense(call[m]) * (k - 1))[1], nibble[m])
               /\ k = n + 2 => /\ w[k].line \in {111, 130}
                               /\ w[k].args[1] = OnLines(off[m], nibble[m])
               /\ w[k].args[1] = OnLines(off[m], nibble[m]) => k = n + 2
          /\ pc[m] \in {"cw_energize", "ccw_energize"} =>
               /\ Len(w) = i[m] + 1
               /\ states[m] = Turned(c, Sense(call[m]) * (i[m] + 1))
          /\ pc[m] \in {"cw_sleep", "ccw_sleep"} =>
               /\ Len(w) = i[m] + 2
               /\ Last(log[m]).args[1] = OnLines(states[m][1], nibble[m])
               /\ states[m] = Turned(c, Sense(call[m]) * (i[m] + 1))

C13_Witness ==
  /\ Idle(1) /\ call[1].op = "step_counterclockwise" /\ call[1].steps = 5
  /\ power_transistors = "ptype" /\ nibble[1] = 1
  /\ call[1].start = <<5, 6, 10, 9>>
  /\ Len(Writes(log[1])) = 7
  /\ Writes(log[1])[2].args[1] = 9 * 16
  /\ Writes(log[1])[6].args[1] = 9 * 16

\* the call expected at position k of the log of a step call of n steps
SleepOrderAt(m, k, n) ==
  LET e == log[m][k]
  IN  CASE k = 1 -> IsWrite(e) /\ e.line \in {99, 118}
        [] k > 1 /\ k <= 2 * n + 1 /\ k % 2 = 0 ->
             IsWrite(e) /\ e.line \in {105, 124}
        [] k > 1 /\ k <= 2 * n + 1 /\ k % 2 = 1 ->
             IsSleep(e) /\ e.line \in {107, 126} /\ e.args = <<step_time[m]>>
        [] k = 2 * n + 2 ->
             IsSleep(e) /\ e.line \in {109, 128} /\ e.args = <<settle_time[m]>>
        [] k = 2 * n + 3 -> IsWrite(e) /\ e.line \in {111, 130}
        [] OTHER -> FALSE

\* C14: sleep ordering of a step call of n steps: n step-time sleeps, each
\* directly after its phase write and before the next rotation, no sleep
\* between the re-assert write and the first phase write, and one
\* settle-time sleep, after the last step sleep and directly before the
\* de-energize write.
C14_SleepOrder ==
  \A m \in Motors :
    IsStep(call[m]) =>
      /\ \A k \in DOMAIN log[m] : SleepOrderAt(m, k, call[m].steps)
      /\ Idle(m) <=> Len(log[m]) = 2 * call[m].steps + 3
      /\ Idle(m) =>
           /\ CountAt(log[m], {107, 126}) = call[m].steps
           /\ CountAt(log[m], {109, 128}) = 1
           /\ Len(Sleeps(log[m])) = call[m].steps + 1
      /\ pc[m] \in {"cw_energize", "ccw_energize"} =>
           /\ Len(log[m]) = 2 * i[m] + 1
           /\ i[m] > 0 => IsSleep(Last(log[m]))
      /\ pc[m] \in {"cw_for", "ccw_for"} => Len(log[m]) = 2 * i[m] + 1

C14_Witness ==
  /\ Idle(1) /\ call[1].op = "step_clockwise" /\ call[1].steps = 3
  /\ step_time[1] = 0 /\ settle_time[1] = DefaultTime
  /\ Len(log[1]) = 9
  /\ log[1][7].args = <<0>> /\ log[1][8].args = <<DefaultTime>>

\* the cycle a controller of the module's polarity is built with
BuiltCycle == IF power_transistors = "ntype" THEN <<6, 10, 9, 5>> ELSE <<9, 5, 6, 10>>

\* a step call is entered: its first write carries the pattern of self.states
\* the controller wrote last, or the built head if it has written none
C16_ReassertHeld ==
  \A m \in Motors :
    (pc[m] = "idle" /\ pc'[m] \in {"cw_for", "ccw_for"}) =>
      /\ Len(log'[m]) = 1
      /\ IsWrite(log'[m][1])
      /\ log'[m][1].args[1] =
           IF phase[m] = NoPhase THEN OnLines(BuiltCycle[1], nibble[m])
                                 ELSE phase[m]

\* C16: the re-assert write that opens a step call carries the controller's
\* last-known phase: the pattern of self.states it wrote most recently (the
\* built head if it has written none), however many turn_power_off calls
\* and zero-step calls lie in between.
C16_LastKnownPhase == [][C16_ReassertHeld]_vars

C16_Witness ==
  /\ pc[1] = "cw_for" /\ i[1] = 0 /\ Len(log[1]) = 1
  /\ call[1].steps = 0
  /\ prev[1].op = "turn_power_off"
  /\ nibble[1] = 0
  /\ log[1][1].args[1] = phase[1]
  /\ phase[1] # BuiltCycle[1]

\* C17: a construction with a nibble outside 0..3 fails fast: it never gets
\* as far as configuring the pins, and no set_DIO_to_output call is made
\* with a mask outside the device's 16 lines.
C17_NibbleValidated ==
  \A m \in Motors :
    (pc[m] # "new" /\ nibble[m] \notin ValidNibbles) =>
      /\ pc[m] = "raised"
      /\ \A k \in DOMAIN log[m] :
           log[m][k].fn = "set_DIO_to_output" => log[m][k].args[1] <= AllLines

\* C18: net rotation: whenever no call is running, self.states is the built
\* cycle rotated left by (C - D) mod 4, C and D the sums of the step counts
\* of the clockwise and of the counter-clockwise calls made so far
\* (turn_power_off calls counting nothing).
C18_NetRotation ==
  \A m \in Motors :
    (Constructed(m) /\ Idle(m)) =>
      /\ net[m] \in 0..3
      /\ states[m] = Turned(BuiltCycle, net[m])

C18_Witness ==
  /\ Idle(1) /\ net[1] = 3
  /\ call[1].op = "step_clockwise" /\ call[1].steps = 5
  /\ prev[1].op = "step_counterclockwise" /\ prev[1].steps = 6
  /\ power_transistors = "ntype" /\ states[1] = <<5, 6, 10, 9>>

\* C19: de-energized at rest: when no operation is running and a
\* step_clockwise, step_counterclockwise or turn_power_off call has returned,
\* the 4 lines of the controller's nibble hold off; the lines hold a pattern
\* of self.states only while a step call is running.
C19_DeEnergizedAtRest ==
  \A m \in Motors :
    (Constructed(m) /\ nibble[m] \in ValidNibbles) =>
      /\ (Idle(m) /\ call[m].op \in StepMethods \cup {"turn_power_off"}) =>
           BitAnd(dio, LinesOf(nibble[m])) = OnLines(off[m], nibble[m])
      /\ (\E k \in DOMAIN states[m] :
            BitAnd(dio, LinesOf(nibble[m])) = OnLines(states[m][k], nibble[m]))
         => (~Idle(m) /\ IsStep(call[m]))

C19_Witness ==
  /\ Idle(1) /\ call[1].op = "step_counterclockwise" /\ call[1].steps = 2
  /\ power_transistors = "ntype" /\ nibble[1] = 2
  /\ BitAnd(dio, 15 * 256) = 0
  /\ BitAnd(dio0, 15 * 256) = 10 * 256

\* a step call returns only by its de-energize write
C15_ReturnsByOffWrite ==
  \A m \in Motors :
    (InStep(m) /\ pc'[m] = "idle") =>
      /\ IsStep(call'[m])
      /\ IsWrite(Last(log'[m]))
      /\ Last(log'[m]).line \in {111, 130}
      /\ Last(log'[m]).args = <<OnLines(off[m], nibble[m]), LinesOf(nibble[m])>>

\* C15: run to completion: when every device write and sleep returns,
\* every step_clockwise(steps) and step_counterclockwise(steps) call
\* eventually returns, and it returns only after its de-energize write.
C15_RunToCompletion ==
  /\ \A m \in Motors : [](InStep(m) => <>Idle(m))
  /\ [][C15_ReturnsByOffWrite]_vars

C15_Witness ==
  /\ Idle(1) /\ call[1].op = "step_clockwise" /\ call[1].steps = MaxRunSteps
  /\ prev[1].op = "step_counterclockwise" /\ prev[1].steps = 3
  /\ Last(log[1]).line = 111

\* C12: write-failure propagation: when a device write inside
\* step_clockwise, step_counterclockwise or turn_power_off fails, the
\* device's exception reaches the caller as it was raised, the write is not
\* repeated, and the method makes no device write (no de-energize write
\* either) and no sleep after the failed one.
C12_WriteFailurePropagates ==
  \A m \in Motors :
    \A k \in DOMAIN log[m] :
      log[m][k].fn \in {"device_error", "raise"} =>
        /\ Idle(m)
        /\ Len(log[m]) >= 3
        /\ LET f == Len(log[m]) - 2
           IN  /\ k \in {f + 1, f + 2}
               /\ IsWrite(log[m][f])
               /\ log[m][f + 1].fn = "device_error"
               /\ log[m][f + 2].fn = "raise"
               /\ log[m][f + 2].args = log[m][f + 1].args
               /\ log[m][f + 2].line = log[m][f].line
               /\ \A j \in 1..(f - 1) :
                    /\ log[m][j].fn \in {"write_to_DIO", "sleep"}
                    /\ log[m][j] # log[m][f] \/ ~IsWrite(log[m][f - 1])
               /\ IsStep(call[m]) =>
                    /\ \A j \in 1..f : SleepOrderAt(m, j, call[m].steps)
                    /\ CountAt(log[m], {111, 130}) = 1 => log[m][f].line \in {111, 130}
               /\ call[m].op = "turn_power_off" => f = 1

C12_Witness ==
  /\ Idle(1) /\ call[1].op = "step_clockwise" /\ call[1].steps = 3
  /\ Len(log[1]) = 6
  /\ log[1][4].line = 105 /\ IsWrite(log[1][4])
  /\ log[1][6] = Event("raise", <<"IOError">>, 105)
  /\ CountAt(log[1], {111}) = 0
  /\ log[1][4].args[1] # log[1][2].args[1]
  /\ BitAnd(dio, LinesOf(1)) = log[1][2].args[1]

\* the events of a call that drive the controller's lines
Drives(e) == e.fn \in {"write_to_DIO", "set_DIO_to_output"}
\* the value the controller has most recently driven onto its lines
LastDriven(m) ==
  LET ks == {k \in DOMAIN log[m] : Drives(log[m][k])}
      e  == log[m][CHOOSE k \in ks : \A j \in ks : j <= k]
  IN  IF IsWrite(e) THEN e.args[1] ELSE e.args[2]

\* the 4 lines of every constructed controller hold what it drove last
C11_OwnLines ==
  \A m \in Motors :
    Constructed(m) => BitAnd(dio, LinesOf(nibble[m])) = LastDriven(m)

\* a step of one controller leaves the fields of the other as they were
C11_OthersKept ==
  \A k \in Motors :
    (pc'[k] # pc[k] \/ log'[k] # log[k] \/ call'[k] # call[k]) =>
      \A m \in Motors \ {k} :
        /\ states'[m] = states[m]
        /\ off'[m] = off[m]
        /\ nibble'[m] = nibble[m]

\* C11: multi-controller isolation: with two controllers constructed on
\* different nibbles of one device, under every interleaving of their
\* constructor calls, writes and sleeps, the 4 lines of each nibble hold the
\* value most recently driven by that nibble's own controller, and no
\* operation of one controller changes the states list of the other.
C11_MultiIsolation == [](C11_OwnLines) /\ [][C11_OthersKept]_vars

C11_Witness ==
  /\ pc[1] = "cw_sleep" /\ pc[2] = "ccw_sleep"
  /\ nibble[1] = 0 /\ nibble[2] = 1
  /\ IsStep(prev[1]) /\ IsStep(prev[2])
  /\ states[1] # states[2]
  /\ BitAnd(dio, LinesOf(0)) = OnLines(states[1][1], 0)
  /\ BitAnd(dio, LinesOf(1)) = OnLines(states[2][1], 1)

\* C20: polarity complement: an n-type and a p-type controller on the same
\* nibble, taken through the same step_clockwise, step_counterclockwise and
\* turn_power_off calls, issue the same number of writes, at the same
\* places and with the same masks, and every value the p-type controller
\* writes (phase patterns and off alike) is the complement, within the
\* nibble's 4 lines, of the value the n-type controller writes there.
C20_PolarityComplement ==
  (InSync /\ Constructed(1) /\ call[1].op # "__init__") =>
    /\ Len(Writes(log[1])) = Len(Writes(log[2]))
    /\ \A k \in DOMAIN log[1] :
         /\ log[2][k].fn = log[1][k].fn
         /\ log[2][k].line = log[1][k].line
         /\ IsWrite(log[1][k]) =>
              /\ log[2][k].args[2] = log[1][k].args[2]
              /\ log[1][k].args[2] = LinesOf(nibble[1])
              /\ log[2][k].args[1] = LinesOf(nibble[1]) - log[1][k].args[1]

C20_Witness ==
  /\ InSync /\ Idle(1) /\ nibble[1] = 2
  /\ call[1].op = "step_counterclockwise" /\ call[1].steps = 3
  /\ prev[1].op = "step_clockwise"
  /\ off[1] = 0 /\ off[2] = 15
  /\ Len(Writes(log[2])) = 5
  /\ log[1][2].args[1] = 9 * 256 /\ log[2][2].args[1] = 6 * 256

===========================================================================
